---------------------------- MODULE Spec2Model ----------------------------
(***************************************************************************)
(* A model of the dir-compare crate (src/src/lib.rs): Entry::at and        *)
(* Content::of snapshot a filesystem location into a value tree, and the   *)
(* derived PartialEq compares two such trees.                              *)
(*                                                                         *)
(* Paths and names are sequences of bytes.  A byte is written as a one     *)
(* character string ("/", ".", "a") or, for a byte that is not valid       *)
(* UTF-8 on its own, as "x80" / "x81".                                     *)
(***************************************************************************)
EXTENDS Integers, Sequences, FiniteSets, TLC

VARIABLES fs, cwd, a, b, change

vars == <<fs, cwd, a, b, change>>

(***************************************************************************)
(* Bounds of the model.                                                    *)
(***************************************************************************)
\* files and directories created below the root directory
MaxNodes == 3
\* bytes of a fixture file
MaxLen == 1
\* bytes of a path handed to Entry::at / Content::of by SpecPath
MaxPathLen == 4

Byte == {0, 1}
InvalidBytes == {"x80", "x81"}
NameBytes == {"a"} \cup InvalidBytes
PathBytes == {"/", ".", "a", "x80"}

(***************************************************************************)
(* Path::file_name (std), as used by Entry::at.                            *)
(***************************************************************************)
None == [some |-> FALSE, v |-> <<>>]
Some(x) == [some |-> TRUE, v |-> x]

\* The pieces of a path between its separators, empty pieces included.
RECURSIVE SplitFrom(_, _, _)
SplitFrom(path, i, cur) ==
    IF i > Len(path) THEN <<cur>>
    ELSE IF path[i] = "/" THEN <<cur>> \o SplitFrom(path, i + 1, <<>>)
    ELSE SplitFrom(path, i + 1, Append(cur, path[i]))

Split(path) == SplitFrom(path, 1, <<>>)

\* Components skips empty pieces and `.` pieces (a leading `.` is the CurDir
\* component, which is not Normal either).
NamedPieces(path) ==
    SelectSeq(Split(path), LAMBDA p : p # <<>> /\ p # <<".">>)

\* path.file_name(): the last component when it is Normal, else None.
FileName(path) ==
    LET ps == NamedPieces(path)
    IN  IF ps = <<>> THEN None
        ELSE IF ps[Len(ps)] = <<".", ".">> THEN None
        ELSE Some(ps[Len(ps)])

\* OsStr::to_string_lossy: every byte that is not valid UTF-8 becomes U+FFFD.
ToStringLossy(name) ==
    [i \in 1..Len(name) |->
        IF name[i] \in InvalidBytes THEN "U+FFFD" ELSE name[i]]

\* PathBuf::push of a relative name, as DirEntry::path joins the directory
\* path given to read_dir with the entry's file name.
Join(path, name) ==
    IF path = <<>> THEN name
    ELSE IF path[Len(path)] = "/" THEN path \o name
    ELSE path \o <<"/">> \o name

(***************************************************************************)
(* The filesystem collaborator.  A node is a regular file (data) or a      *)
(* directory (items, in the order its listing yields them); err is ""      *)
(* or the io::ErrorKind with which reading the node fails.                 *)
(***************************************************************************)
FileNode(data, err) == [kind |-> "file", data |-> data, items |-> <<>>, err |-> err]
DirNode(items, err) == [kind |-> "dir", data |-> <<>>, items |-> items, err |-> err]
Item(name, node) == [name |-> name, node |-> node]

ItemNames(items) == {items[i].name : i \in 1..Len(items)}

IndexOf(items, name) == CHOOSE i \in 1..Len(items) : items[i].name = name

\* The node at a canonical location (a sequence of names below the root).
RECURSIVE NodeAt(_, _)
NodeAt(node, loc) ==
    IF loc = <<>> THEN node
    ELSE NodeAt(node.items[IndexOf(node.items, Head(loc))].node, Tail(loc))

Parent(loc) == IF loc = <<>> THEN <<>> ELSE SubSeq(loc, 1, Len(loc) - 1)

\* Path resolution: [code |-> "" or an ErrorKind, loc |-> the location].
RECURSIVE Walk(_, _, _, _)
Walk(root, loc, pieces, i) ==
    IF i > Len(pieces) THEN [code |-> "", loc |-> loc]
    ELSE IF pieces[i] = <<>> /\ i < Len(pieces) THEN Walk(root, loc, pieces, i + 1)
    ELSE IF NodeAt(root, loc).kind # "dir" THEN [code |-> "NotADirectory", loc |-> loc]
    ELSE IF pieces[i] = <<>> \/ pieces[i] = <<".">> THEN Walk(root, loc, pieces, i + 1)
    ELSE IF pieces[i] = <<".", ".">> THEN Walk(root, Parent(loc), pieces, i + 1)
    ELSE IF pieces[i] \notin ItemNames(NodeAt(root, loc).items)
         THEN [code |-> "NotFound", loc |-> loc]
    ELSE Walk(root, Append(loc, pieces[i]), pieces, i + 1)

Resolve(w, path) ==
    IF path = <<>> THEN [code |-> "NotFound", loc |-> <<>>]
    ELSE IF path[1] = "/" THEN Walk(w.root, <<>>, Split(Tail(path)), 1)
    ELSE Walk(w.root, w.cwd, Split(path), 1)

\* An io::Error: its kind, and (as its identity) the call that produced it.
IoErr(code, op, path) == [code |-> code, op |-> op, path |-> path]

\* Path::is_file: false when the metadata cannot be read.
IsFile(w, path) ==
    LET r == Resolve(w, path)
    IN  r.code = "" /\ NodeAt(w.root, r.loc).kind = "file"

Ok(v) == [status |-> "Ok", val |-> v, err |-> <<>>]
Err(e) == [status |-> "Err", val |-> <<>>, err |-> e]
Panic(p) == [status |-> "Panic", val |-> <<>>, err |-> p]

\* fs::read
FsRead(w, path) ==
    LET r == Resolve(w, path)
        n == NodeAt(w.root, r.loc)
    IN  IF r.code # "" THEN Err(IoErr(r.code, "read", path))
        ELSE IF n.kind # "file" THEN Err(IoErr("IsADirectory", "read", path))
        ELSE IF n.err # "" THEN Err(IoErr(n.err, "read", path))
        ELSE Ok(n.data)

\* A listing that yields the parent-directory marker first, as readdir(3) may.
FsReadDirWithParent(w, path) ==
    LET r == Resolve(w, path)
        n == NodeAt(w.root, r.loc)
    IN  IF r.code # "" THEN Err(IoErr(r.code, "read_dir", path))
        ELSE IF n.kind # "dir" THEN Err(IoErr("NotADirectory", "read_dir", path))
        ELSE IF n.err # "" THEN Err(IoErr(n.err, "read_dir", path))
        ELSE Ok(<<Item(<<".", ".">>, DirNode(<<>>, ""))>> \o n.items)

\* fs::read_dir: the listing, each item an Ok(DirEntry) or an Err.
FsReadDir(w, path) ==
    LET r == Resolve(w, path)
        n == NodeAt(w.root, r.loc)
    IN  IF r.code # "" THEN Err(IoErr(r.code, "read_dir", path))
        ELSE IF n.kind # "dir" THEN Err(IoErr("NotADirectory", "read_dir", path))
        ELSE IF n.err # "" THEN Err(IoErr(n.err, "read_dir", path))
        ELSE Ok(n.items)


(***************************************************************************)
(* The value tree (lines 44-48, 114-120) and its errors (53-65).           *)
(***************************************************************************)
File(data) == [tag |-> "File", bytes |-> data, entries |-> <<>>]
Entries(es) == [tag |-> "Entries", bytes |-> <<>>, entries |-> es]
Entry(name, content) == [name |-> name, content |-> content]

InvalidPath(path) == [variant |-> "InvalidPath", path |-> path, io |-> <<>>]
IoError(e) == [variant |-> "IoError", path |-> <<>>, io |-> e]

\* A listing item that stands for the listing iterator yielding an Err.
IsListingError(item) == item.node.kind = "readdir_err"

RECURSIVE ContentOf(_, _), EntryAt(_, _), CollectEntries(_, _, _, _, _)
RECURSIVE CollectEntriesSkipping(_, _, _, _, _), CollectEntriesReversed(_, _, _, _, _)

\* Entry::at reading the content before it looks at the name.
EntryAtContentFirst(w, path) ==
    LET c == ContentOf(w, path)
        name == FileName(path)
    IN  IF c.status = "Panic" THEN c
        ELSE IF c.status = "Err" THEN Err(IoError(c.err))
        ELSE IF ~name.some THEN Err(InvalidPath(path))
        ELSE Ok(Entry(ToStringLossy(name.v), c.val))

\* Entry::at naming the entry after the whole path.
EntryAtWholePath(w, path) ==
    LET name == FileName(path)
    IN  IF ~name.some THEN Err(InvalidPath(path))
        ELSE LET c == ContentOf(w, path)
             IN  IF c.status = "Panic" THEN c
                 ELSE IF c.status = "Err" THEN Err(IoError(c.err))
                 ELSE Ok(Entry(ToStringLossy(path), c.val))

\* The collection with the children that fail left out (filter_map(Result::ok)).
CollectEntriesSkipping(w, path, items, i, acc) ==
    IF i > Len(items) THEN Ok(acc)
    ELSE IF IsListingError(items[i])
         THEN CollectEntriesSkipping(w, path, items, i + 1, acc)
    ELSE LET r == EntryAt(w, Join(path, items[i].name))
         IN  IF r.status = "Ok"
             THEN CollectEntriesSkipping(w, path, items, i + 1, Append(acc, r.val))
             ELSE CollectEntriesSkipping(w, path, items, i + 1, acc)

\* The collection with each entry put in front of the ones before it.
CollectEntriesReversed(w, path, items, i, acc) ==
    IF i > Len(items) THEN Ok(acc)
    ELSE IF IsListingError(items[i])
         THEN Err(IoErr(items[i].node.err, "next", path))
    ELSE LET r == EntryAt(w, Join(path, items[i].name))
         IN  IF r.status = "Panic" THEN r
             ELSE IF r.status = "Err"
                  THEN IF r.err.variant = "IoError" THEN Err(r.err.io)
                       ELSE Panic(r.err.path)
             ELSE CollectEntriesReversed(w, path, items, i + 1, <<r.val>> \o acc)

\* Entry::at
EntryAt(w, path) ==
    LET name == FileName(path)
    IN  IF ~name.some THEN Err(InvalidPath(path))
        ELSE LET c == ContentOf(w, path)
             IN  IF c.status = "Panic" THEN c
                 ELSE IF c.status = "Err" THEN Err(IoError(c.err))
                 ELSE Ok(Entry(ToStringLossy(name.v), c.val))

\* The map over the listing collected into io::Result<Vec<Entry>>: items are
\* taken in listing order and the first Err ends the collection.
CollectEntries(w, path, items, i, acc) ==
    IF i > Len(items) THEN Ok(acc)
    ELSE IF IsListingError(items[i])
         THEN Err(IoErr(items[i].node.err, "next", path))
    ELSE LET r == EntryAt(w, Join(path, items[i].name))
         IN  IF r.status = "Panic" THEN r
             ELSE IF r.status = "Err"
                  THEN IF r.err.variant = "IoError" THEN Err(r.err.io)
                       ELSE Panic(r.err.path)
             ELSE CollectEntries(w, path, items, i + 1, Append(acc, r.val))

\* Content::of
ContentOf(w, path) ==
    IF IsFile(w, path)
    THEN LET data == FsRead(w, path)
         IN  IF data.status = "Err" THEN data ELSE Ok(File(data.val))
    ELSE LET listing == FsReadDir(w, path)
         IN  IF listing.status = "Err" THEN listing
             ELSE LET entries == CollectEntries(w, path, listing.val, 1, <<>>)
                  IN  IF entries.status = "Ok" THEN Ok(Entries(entries.val))
                      ELSE entries

\* #[derive(PartialEq)] on Entry and Content.
RECURSIVE EntryEq(_, _), ContentEq(_, _)

EntryEq(x, y) == x.name = y.name /\ ContentEq(x.content, y.content)

\* Content equality that pairs each entry with the next one of the other side.
ContentEqShifted(x, y) ==
    /\ x.tag = y.tag
    /\ IF x.tag = "File" THEN x.bytes = y.bytes
       ELSE /\ Len(x.entries) = Len(y.entries)
            /\ \A i \in 1..(Len(x.entries) - 1) : EntryEq(x.entries[i], y.entries[i + 1])

\* Content equality that compares the sizes of two files, not their bytes.
ContentEqBySize(x, y) ==
    /\ x.tag = y.tag
    /\ IF x.tag = "File" THEN Len(x.bytes) = Len(y.bytes)
       ELSE /\ Len(x.entries) = Len(y.entries)
            /\ \A i \in 1..Len(x.entries) : EntryEq(x.entries[i], y.entries[i])

ContentEq(x, y) ==
    /\ x.tag = y.tag
    /\ IF x.tag = "File" THEN x.bytes = y.bytes
       ELSE /\ Len(x.entries) = Len(y.entries)
            /\ \A i \in 1..Len(x.entries) : EntryEq(x.entries[i], y.entries[i])

(***************************************************************************)
(* The filesystem the tests run on: fixtures are created below the root,   *)
(* and between two snapshots one thing about them may be changed.          *)
(***************************************************************************)
Names == {<<c>> : c \in NameBytes}

RECURSIVE SeqsUpTo(_, _)
SeqsUpTo(S, n) ==
    IF n = 0 THEN {<<>>}
    ELSE SeqsUpTo(S, n - 1) \cup
         {Append(q, x) : q \in {r \in SeqsUpTo(S, n - 1) : Len(r) = n - 1}, x \in S}

\* The paths a caller may hand to Entry::at and Content::of.
Paths == SeqsUpTo(PathBytes, MaxPathLen)

\* The fixture the path tests run on: /a/x80 (a file), /a/a (a directory)
\* and /x80 (a directory that cannot be listed).
PathFixture ==
    DirNode(<<Item(<<"a">>, DirNode(<<Item(<<"x80">>, FileNode(<<0>>, "")),
                                      Item(<<"a">>, DirNode(<<>>, ""))>>, "")),
              Item(<<"x80">>, DirNode(<<>>, "PermissionDenied"))>>, "")

\* A file of n zero bytes.
Zeros(n) == [i \in 1..n |-> 0]

ListingError == [kind |-> "readdir_err", data |-> <<>>, items |-> <<>>, err |-> "Other"]

\* Fixtures to compare: a file with bytes to overwrite, and a directory.
PlainLeaves == {FileNode(Zeros(MaxLen), ""), DirNode(<<>>, "")}

Leaves ==
    {FileNode(Zeros(n), "") : n \in 0..MaxLen} \cup
    {DirNode(<<>>, ""), FileNode(<<>>, "PermissionDenied"), DirNode(<<>>, "PermissionDenied")}

\* The locations of the nodes of a tree (listing errors are not nodes).
RECURSIVE Locs(_)
Locs(node) ==
    {<<>>} \cup
    UNION {{<<node.items[i].name>> \o l : l \in Locs(node.items[i].node)}
           : i \in {j \in 1..Len(node.items) : ~IsListingError(node.items[j])}}

RECURSIVE Size(_)
Size(node) ==
    IF node.items = <<>> THEN 1
    ELSE LET RECURSIVE Sum(_)
             Sum(i) == IF i = 0 THEN 0 ELSE Size(node.items[i].node) + Sum(i - 1)
         IN  1 + Sum(Len(node.items))

\* The absolute path of a location.
RECURSIVE PathOf(_)
PathOf(loc) ==
    IF loc = <<>> THEN <<"/">>
    ELSE IF Len(loc) = 1 THEN <<"/">> \o loc[1]
    ELSE PathOf(Parent(loc)) \o <<"/">> \o loc[Len(loc)]

RECURSIVE ReplaceAt(_, _, _)
ReplaceAt(node, loc, new) ==
    IF loc = <<>> THEN new
    ELSE LET i == IndexOf(node.items, Head(loc))
         IN  [node EXCEPT !.items[i].node = ReplaceAt(@, Tail(loc), new)]

InsertAt(items, pos, item) ==
    SubSeq(items, 1, pos - 1) \o <<item>> \o SubSeq(items, pos, Len(items))

HasListingError(items) == \E i \in 1..Len(items) : IsListingError(items[i])

World == [root |-> fs, cwd |-> cwd]

NoCall == [op |-> "none", path |-> <<>>, loc |-> <<>>, root |-> <<>>, res |-> <<>>]

Snapshot(op, path) ==
    IF op = "Entry::at" THEN EntryAt(World, path) ELSE ContentOf(World, path)

Call(op, path, loc) ==
    [op |-> op, path |-> path, loc |-> loc, root |-> fs, res |-> Snapshot(op, path)]

Ops == {"Entry::at", "Content::of"}

Changed(kind, loc) == [kind |-> kind, loc |-> loc, to |-> loc]

Init ==
    /\ fs = DirNode(<<>>, "")
    /\ cwd = <<>>
    /\ a = NoCall
    /\ b = NoCall
    /\ change = Changed("none", <<>>)

\* A fixture: one more file or directory, listed at any position.
CreateIn(leaves) ==
    /\ a.op = "none"
    /\ Size(fs) - 1 < MaxNodes
    /\ \E loc \in Locs(fs) :
         LET dir == NodeAt(fs, loc)
             last == Len(dir.items) + (IF HasListingError(dir.items) THEN 0 ELSE 1)
         IN  /\ dir.kind = "dir" /\ dir.err = ""
             /\ \E pos \in 1..last, name \in Names \ ItemNames(dir.items), leaf \in leaves :
                  fs' = ReplaceAt(fs, loc,
                            [dir EXCEPT !.items = InsertAt(@, pos, Item(name, leaf))])
    /\ UNCHANGED <<cwd, a, b, change>>

\* Fixtures some of which cannot be read.
Create == CreateIn(Leaves)

\* Fixtures that can all be read.
CreatePlain == CreateIn(PlainLeaves)

\* A fixture whose listing fails after the items it has yielded.
BreakListing ==
    /\ a.op = "none"
    /\ Size(fs) - 1 < MaxNodes
    /\ \E loc \in Locs(fs) :
         LET dir == NodeAt(fs, loc)
         IN  /\ dir.kind = "dir" /\ dir.err = "" /\ ~HasListingError(dir.items)
             /\ fs' = ReplaceAt(fs, loc,
                           [dir EXCEPT !.items = Append(@, Item(<<>>, ListingError))])
    /\ UNCHANGED <<cwd, a, b, change>>

\* let a = Entry::at(path) / Content::of(path), path naming a fixture
SnapshotA ==
    /\ a.op = "none"
    /\ \E op \in Ops, loc \in Locs(fs) : a' = Call(op, PathOf(loc), loc)
    /\ UNCHANGED <<fs, cwd, b, change>>

\* One byte of one file is overwritten.
WriteByte ==
    /\ a.op # "none" /\ b.op = "none" /\ change.kind = "none"
    /\ \E loc \in Locs(fs) :
         LET f == NodeAt(fs, loc)
         IN  /\ f.kind = "file"
             /\ \E i \in 1..Len(f.data) : \E v \in Byte \ {f.data[i]} :
                  fs' = ReplaceAt(fs, loc, [f EXCEPT !.data[i] = v])
             /\ change' = Changed("byte", loc)
    /\ UNCHANGED <<cwd, a, b>>

\* One file or directory gets another name; its place in the listing stays.
Rename ==
    /\ a.op # "none" /\ b.op = "none" /\ change.kind = "none"
    /\ \E loc \in Locs(fs) \ {<<>>} :
         LET dir == NodeAt(fs, Parent(loc))
             i == IndexOf(dir.items, loc[Len(loc)])
         IN  /\ \E name \in Names \ ItemNames(dir.items) :
                  /\ fs' = ReplaceAt(fs, Parent(loc), [dir EXCEPT !.items[i].name = name])
                  /\ change' = [kind |-> "name", loc |-> loc, to |-> Append(Parent(loc), name)]
    /\ UNCHANGED <<cwd, a, b>>

\* The listing of one directory yields two neighbours in the other order.
Reorder ==
    /\ a.op # "none" /\ b.op = "none" /\ change.kind = "none"
    /\ \E loc \in Locs(fs) :
         LET dir == NodeAt(fs, loc)
         IN  /\ \E i \in 1..(Len(dir.items) - 1) :
                  fs' = ReplaceAt(fs, loc,
                           [dir EXCEPT !.items[i] = dir.items[i + 1],
                                       !.items[i + 1] = dir.items[i]])
             /\ change' = Changed("order", loc)
    /\ UNCHANGED <<cwd, a, b>>

IsPrefix(p, q) == Len(p) <= Len(q) /\ SubSeq(q, 1, Len(p)) = p

\* Where the fixture that a was taken of is now.
NowAt(loc) ==
    IF change.kind = "name" /\ IsPrefix(change.loc, loc)
    THEN change.to \o SubSeq(loc, Len(change.loc) + 1, Len(loc))
    ELSE loc

\* let b = ... of the same fixture, to be compared with a
SnapshotB ==
    /\ a.op # "none" /\ b.op = "none"
    /\ b' = Call(a.op, PathOf(NowAt(a.loc)), NowAt(a.loc))
    /\ UNCHANGED <<fs, cwd, a, change>>

\* The tests of one snapshot, over fixtures that may fail to read.
Next == Create \/ BreakListing \/ SnapshotA

Spec == Init /\ [][Next]_vars

\* The tests that compare two snapshots.
NextCompare == CreatePlain \/ SnapshotA \/ WriteByte \/ Rename \/ Reorder \/ SnapshotB

SpecCompare == Init /\ [][NextCompare]_vars

\* The tests of the paths a caller may pass, run from any directory.
InitPath ==
    /\ fs = PathFixture
    /\ cwd \in {l \in Locs(PathFixture) : NodeAt(PathFixture, l).kind = "dir"}
    /\ a = NoCall
    /\ b = NoCall
    /\ change = Changed("none", <<>>)

\* let a = Entry::at(path) / Content::of(path), for any path at all
SnapshotPath ==
    /\ a.op = "none"
    /\ \E op \in Ops, path \in Paths :
         LET r == Resolve(World, path)
         IN  a' = Call(op, path, IF r.code = "" THEN r.loc ELSE <<>>)
    /\ UNCHANGED <<fs, cwd, b, change>>

NextPath == SnapshotPath

SpecPath == InitPath /\ [][NextPath]_vars

(***************************************************************************)
(* What a snapshot is checked against.                                     *)
(***************************************************************************)
Done(call) == call.op # "none"
Succeeded(call) == Done(call) /\ call.res.status = "Ok"
Compared == Succeeded(a) /\ Succeeded(b)

\* a == b, as the test that took both snapshots writes it.
Equal == IF a.op = "Entry::at" THEN EntryEq(a.res.val, b.res.val)
         ELSE ContentEq(a.res.val, b.res.val)

\* The change lies inside the tree that a was taken of.
ChangeInside == change.kind # "none" /\ IsPrefix(a.loc, change.loc)

\* The change is to the name of the very fixture that a was taken of.
TopRenamed == change.kind = "name" /\ change.loc = a.loc

\* Neither the tree that a was taken of nor the path to it has changed.
Untouched ==
    \/ change.kind = "none"
    \/ /\ ~IsPrefix(a.loc, change.loc)
       /\ ~(change.kind = "name" /\ IsPrefix(change.loc, a.loc))

\* The value tree that mirrors a filesystem tree.
RECURSIVE Image(_)
Image(node) ==
    IF node.kind = "file" THEN File(node.data)
    ELSE Entries([k \in 1..Len(node.items) |->
                    Entry(ToStringLossy(node.items[k].name), Image(node.items[k].node))])

\* Every call to the filesystem that a walk of the tree at path makes when
\* nothing stops it, in depth-first listing order, each with its outcome.
RECURSIVE IoCalls(_, _), IoCallsOfItems(_, _, _)
IoCalls(node, path) ==
    IF node.kind = "file" THEN <<IoErr(node.err, "read", path)>>
    ELSE <<IoErr(node.err, "read_dir", path)>> \o
         (IF node.err # "" THEN <<>> ELSE IoCallsOfItems(node.items, path, 1))

IoCallsOfItems(items, path, i) ==
    IF i > Len(items) THEN <<>>
    ELSE (IF IsListingError(items[i]) THEN <<IoErr(items[i].node.err, "next", path)>>
          ELSE IoCalls(items[i].node, Join(path, items[i].name)))
         \o IoCallsOfItems(items, path, i + 1)

Failures(call) ==
    SelectSeq(IoCalls(NodeAt(call.root, call.loc), call.path), LAMBDA c : c.code # "")

IsInvalidPath(res) == res.status = "Err" /\ res.err.variant = "InvalidPath"

\* The path is `..` or ends with it, once `.` and empty pieces are dropped.
EndsWithParentMarker(path) ==
    LET ps == NamedPieces(path)
    IN  ps # <<>> /\ ps[Len(ps)] = <<".", ".">>

\* Every entry of a value tree bears the name of the path it was made from:
\* its final component as it is (exact), or as to_string_lossy decodes it.
RECURSIVE EntryNamed(_, _, _, _), ContentNamed(_, _, _, _)
EntryNamed(exact, entry, path, node) ==
    /\ FileName(path).some
    /\ entry.name = (IF exact THEN FileName(path).v ELSE ToStringLossy(FileName(path).v))
    /\ entry.name # <<>>
    /\ entry.name # <<".", ".">>
    /\ ContentNamed(exact, entry.content, path, node)

ContentNamed(exact, content, path, node) ==
    content.tag = "Entries" =>
        /\ Len(content.entries) = Len(node.items)
        /\ \A k \in 1..Len(content.entries) :
              EntryNamed(exact, content.entries[k],
                         Join(path, node.items[k].name), node.items[k].node)

SnapshotNamed(exact) ==
    Succeeded(a) =>
        IF a.op = "Entry::at"
        THEN EntryNamed(exact, a.res.val, a.path, NodeAt(a.root, a.loc))
        ELSE ContentNamed(exact, a.res.val, a.path, NodeAt(a.root, a.loc))

(***************************************************************************)
(* The claims.                                                             *)
(***************************************************************************)

\* C1 (SpecCompare): when the directory that a was taken of is given another
\* name and nothing else changes, the two Content values are equal and the
\* two Entry values are not.
C1_NameSensitivity ==
    (Compared /\ TopRenamed /\ NodeAt(a.root, a.loc).kind = "dir") =>
        IF a.op = "Content::of" THEN Equal ELSE ~Equal

C3_ByteSensitivity ==
    (Compared /\ change.kind = "byte" /\ ChangeInside) => ~Equal

C3_Witness ==
    /\ Compared /\ change.kind = "byte" /\ ChangeInside
    /\ a.op = "Entry::at"
    /\ Len(change.loc) = Len(a.loc) + 2
    /\ ~Equal

\* C4 (SpecCompare): when the listing of a directory at or below the one that
\* a was taken of yields two children in the other order, the snapshots taken
\* before and after compare unequal.
C4_OrderSensitivity ==
    (Compared /\ change.kind = "order" /\ ChangeInside) => ~Equal

\* C5 (Spec): Content::of returns Ok exactly when no call to the filesystem
\* fails anywhere in the tree, and otherwise returns the first failure in
\* depth-first listing order, with its kind and origin unchanged.
C5_FirstErrorPropagates ==
    (Done(a) /\ a.op = "Content::of") =>
        IF Failures(a) = <<>> THEN a.res.status = "Ok"
        ELSE a.res.status = "Err" /\ a.res.err = Failures(a)[1]

C5_Witness ==
    /\ Done(a) /\ a.op = "Content::of"
    /\ Len(Failures(a)) >= 2
    /\ Failures(a)[1].code # Failures(a)[2].code
    /\ IoCalls(NodeAt(a.root, a.loc), a.path)[2].code = ""
    /\ a.res.status = "Err"

\* C6 (SpecPath): Entry::at of a path without a final component returns
\* InvalidPath carrying that path, whatever Content::of would do at that path.
C6_InvalidPath ==
    (Done(a) /\ a.op = "Entry::at" /\ ~FileName(a.path).some) =>
        /\ IsInvalidPath(a.res)
        /\ a.res.err.path = a.path

C6_Witness ==
    /\ Done(a) /\ a.op = "Entry::at" /\ ~FileName(a.path).some
    /\ IsInvalidPath(a.res)
    /\ ContentOf([root |-> a.root, cwd |-> cwd], a.path).status = "Err"
    /\ ContentOf([root |-> a.root, cwd |-> cwd], a.path).err.code = "PermissionDenied"

\* C7 (SpecPath): Entry::at fails with InvalidPath exactly when the path is
\* `..` or ends with `..`.
C7_InvalidPathOnlyForParentMarker ==
    (Done(a) /\ a.op = "Entry::at") =>
        (IsInvalidPath(a.res) <=> EndsWithParentMarker(a.path))

\* C8 (SpecPath): from no starting path does a snapshot reach the panic of
\* Content::of, and every failure of Content::of is an error that a call to
\* the filesystem returned.
C8_NoInvalidPathInDescent ==
    Done(a) =>
        /\ a.res.status # "Panic"
        /\ (a.op = "Content::of" /\ a.res.status = "Err") =>
               a.res.err.op \in {"read", "read_dir", "next"}

C8_Witness ==
    /\ Done(a) /\ a.op = "Content::of"
    /\ a.path = <<".", ".">>
    /\ a.res.status = "Ok"
    /\ Len(a.res.val.entries) = 2

\* C9 (Spec): a directory snapshot that succeeds has one Entry per item of the
\* listing, the k-th being the snapshot of the k-th item, at every depth.
C9_OrderPreserved ==
    (Succeeded(a) /\ a.op = "Content::of" /\ NodeAt(a.root, a.loc).kind = "dir") =>
        LET items == NodeAt(a.root, a.loc).items
            c == a.res.val
        IN  /\ c.tag = "Entries"
            /\ Len(c.entries) = Len(items)
            /\ \A k \in 1..Len(items) :
                  c.entries[k] = Entry(ToStringLossy(items[k].name), Image(items[k].node))

C9_Witness ==
    /\ Succeeded(a) /\ a.op = "Content::of"
    /\ LET items == NodeAt(a.root, a.loc).items
       IN  /\ Len(items) = 2
           /\ items[1].name = <<"x80">>
           /\ items[2].name = <<"a">>
           /\ Len(items[2].node.items) = 1
    /\ a.res.val.entries[2].name = <<"a">>

=============================================================================
